---- MODULE Spec2Model ----
(***************************************************************************)
(* Mock clients of the G2 SDK (configuration manager, engine, product).    *)
(* One facade instance is modelled; its capability group is fixed in Init. *)
(* The caller (test harness) is a single thread that invokes one facade    *)
(* method at a time; dispatch goroutines and per-observer delivery         *)
(* goroutines run concurrently with it.                                    *)
(*                                                                         *)
(* A facade method is cut in two steps (pc "idle" -> "body" -> "idle").    *)
(* Goroutines only READ client state, so the only places where an          *)
(* interleaving can be observed are between the caller's writes to         *)
(* client.observers; the cut of RegisterObserver and UnregisterObserver is *)
(* placed exactly between their two writes.                                *)
(*                                                                         *)
(* Specifications: Spec (the facade from its zero value), NotifySpec       *)
(* (client.notify applied to each of its arguments), CtxSpec (Spec with    *)
(* the ctx of each call recorded), TwoSpec (Spec next to a second instance *)
(* that is in use), FailSpec (Spec on a subject whose RegisterObserver     *)
(* may fail) and LogFailSpec (Spec with a logger whose construction may    *)
(* fail).                                                                  *)
(***************************************************************************)
EXTENDS Integers, Sequences, FiniteSets, TLC

\* ------------------------------------------------------------------ bounds
MaxCalls == 3
MaxTrackedCalls == 2
MaxFaultCalls == 2
MaxSets == 1
NumObservers == 2

Observers == 1..NumObservers          \* observer ids (GetObserverId)
Groups == {"configmgr", "engine", "product"}
Levels == {"TRACE", "INFO"}           \* logger.Level values the harness passes
Args == {"a", "b"}                    \* string arguments of a call
Contexts == {"live", "cancelled", "expired"}   \* the ctx argument of a call
IntValues == {0, 42}                  \* values the harness stores in int64 fields
StrValues == {"", "v"}                \* values the harness stores in string fields
Nil == "nil"

\* ------------------------------------------------------- pure conversions
DigitChar == <<"0", "1", "2", "3", "4", "5", "6", "7", "8", "9">>

\* strconv.Itoa / strconv.FormatInt(n, 10) on a non-negative integer.
RECURSIVE Itoa(_)
Itoa(n) == IF n < 10 THEN DigitChar[n + 1]
           ELSE Itoa(n \div 10) \o DigitChar[(n % 10) + 1]

\* The constant ProductId of each package. It is declared outside the three
\* files; one number per group stands for it.
ProductId(g) == CASE g = "configmgr" -> 6002
                  [] g = "engine" -> 6004
                  [] g = "product" -> 6006

\* ------------------------------------------------ the operations modelled
\* kind:    "data" (returns canned fields, possibly none), "sdkid",
\*          "register", "unregister", "loglevel"
\* event:   the messageId passed to client.notify
\* entry, exit: the codes passed to traceEntry / traceExit
\* results: the canned fields of the return statement, in order
\* hasErr:  the method has a trailing error result
\* dArg:    the detail key that carries a string argument ("" if none)
\* dField:  <<key, canned field>> when details report a canned field
Op(name, kind, event, entry, exit, results, hasErr, dArg, dField) ==
    [name |-> name, kind |-> kind, event |-> event, entry |-> entry,
     exit |-> exit, results |-> results, hasErr |-> hasErr, dArg |-> dArg,
     dField |-> dField]

G2configmgr_AddConfig ==
    Op("AddConfig", "data", 8001, 1, 2, <<"AddConfigResult">>, TRUE,
       "configComments", <<>>)
G2configmgr_Destroy ==
    Op("Destroy", "data", 8002, 5, 6, <<>>, TRUE, "", <<>>)
G2configmgr_GetConfig ==
    Op("GetConfig", "data", 8003, 7, 8, <<"GetConfigResult">>, TRUE, "", <<>>)
G2configmgr_GetSdkId ==
    Op("GetSdkId", "sdkid", 8010, 29, 30, <<>>, FALSE, "", <<>>)
G2configmgr_RegisterObserver ==
    Op("RegisterObserver", "register", 8010, 25, 26, <<>>, TRUE, "", <<>>)
G2configmgr_SetLogLevel ==
    Op("SetLogLevel", "loglevel", 8011, 23, 24, <<>>, TRUE, "", <<>>)
G2configmgr_UnregisterObserver ==
    Op("UnregisterObserver", "unregister", 8012, 27, 28, <<>>, TRUE, "", <<>>)

G2engine_AddRecord ==
    Op("AddRecord", "data", 8001, 1, 2, <<>>, TRUE, "dataSourceCode", <<>>)
G2engine_AddRecordWithReturnedRecordID ==
    Op("AddRecordWithReturnedRecordID", "data", 8004, 7, 8,
       <<"AddRecordWithReturnedRecordIDResult">>, TRUE, "dataSourceCode",
       <<"recordID", "AddRecordWithReturnedRecordIDResult">>)
G2engine_ExportConfigAndConfigID ==
    Op("ExportConfigAndConfigID", "data", 8012, 23, 24,
       <<"ExportConfigAndConfigIDResultConfig",
         "ExportConfigAndConfigIDResultConfigID">>, TRUE, "",
       <<"configID", "ExportConfigAndConfigIDResultConfigID">>)
G2engine_GetActiveConfigID ==
    Op("GetActiveConfigID", "data", 8034, 69, 70,
       <<"GetActiveConfigIDResult">>, TRUE, "", <<>>)
G2engine_GetSdkId ==
    Op("GetSdkId", "sdkid", 8075, 161, 162, <<>>, FALSE, "", <<>>)
G2engine_RegisterObserver ==
    Op("RegisterObserver", "register", 8076, 157, 158, <<>>, TRUE, "", <<>>)
G2engine_SetLogLevel ==
    Op("SetLogLevel", "loglevel", 8077, 137, 138, <<>>, TRUE, "", <<>>)
G2engine_UnregisterObserver ==
    Op("UnregisterObserver", "unregister", 8078, 159, 160, <<>>, TRUE, "", <<>>)

G2product_Destroy ==
    Op("Destroy", "data", 8001, 3, 4, <<>>, TRUE, "", <<>>)
G2product_GetSdkId ==
    Op("GetSdkId", "sdkid", 8007, 25, 26, <<>>, TRUE, "", <<>>)
G2product_License ==
    Op("License", "data", 8003, 11, 12, <<"LicenseResult">>, TRUE, "", <<>>)
G2product_RegisterObserver ==
    Op("RegisterObserver", "register", 8008, 21, 22, <<>>, TRUE, "", <<>>)
G2product_SetLogLevel ==
    Op("SetLogLevel", "loglevel", 8009, 13, 14, <<>>, TRUE, "", <<>>)
G2product_UnregisterObserver ==
    Op("UnregisterObserver", "unregister", 8010, 23, 24, <<>>, TRUE, "", <<>>)
G2product_Version ==
    Op("Version", "data", 8006, 19, 20, <<"VersionResult">>, TRUE, "", <<>>)

GroupOps(g) ==
    CASE g = "configmgr" ->
           {G2configmgr_AddConfig, G2configmgr_Destroy, G2configmgr_GetConfig,
            G2configmgr_GetSdkId, G2configmgr_RegisterObserver,
            G2configmgr_SetLogLevel, G2configmgr_UnregisterObserver}
      [] g = "engine" ->
           {G2engine_AddRecord, G2engine_AddRecordWithReturnedRecordID,
            G2engine_ExportConfigAndConfigID, G2engine_GetActiveConfigID,
            G2engine_GetSdkId, G2engine_RegisterObserver,
            G2engine_SetLogLevel, G2engine_UnregisterObserver}
      [] g = "product" ->
           {G2product_Destroy, G2product_GetSdkId, G2product_License,
            G2product_RegisterObserver, G2product_SetLogLevel,
            G2product_UnregisterObserver, G2product_Version}

OpsOfKind(g, k) == {op \in GroupOps(g) : op.kind = k}

\* The canned fields of each client struct that the modelled operations use,
\* and the Go type of each.
IntFields == {"AddConfigResult", "ExportConfigAndConfigIDResultConfigID",
              "GetActiveConfigIDResult"}
Fields(g) ==
    CASE g = "configmgr" -> {"AddConfigResult", "GetConfigResult"}
      [] g = "engine" ->
           {"AddRecordWithReturnedRecordIDResult",
            "ExportConfigAndConfigIDResultConfig",
            "ExportConfigAndConfigIDResultConfigID",
            "GetActiveConfigIDResult"}
      [] g = "product" -> {"LicenseResult", "VersionResult"}

FieldValues(f) == IF f \in IntFields THEN IntValues ELSE StrValues

\* A constructor that presets the int64 fields.
ZeroValuePreset(f) == IF f \in IntFields THEN 42 ELSE ""

\* The zero value of a field of a freshly constructed (zero-value) struct.
ZeroValue(f) == IF f \in IntFields THEN 0 ELSE ""


\* ------------------------------------------------------------ trace codes
\* The trace codes of every method of a facade: the literal passed to
\* client.traceEntry and the one passed to client.traceExit.
TraceCode(name, entry, exit) == [name |-> name, entry |-> entry, exit |-> exit]

G2configmgrTraceCodes ==
    {TraceCode("AddConfig", 1, 2),
     TraceCode("Destroy", 5, 6),
     TraceCode("GetConfig", 7, 8),
     TraceCode("GetConfigList", 9, 10),
     TraceCode("GetDefaultConfigID", 11, 12),
     TraceCode("GetSdkId", 29, 30),
     TraceCode("Init", 17, 18),
     TraceCode("RegisterObserver", 25, 26),
     TraceCode("ReplaceDefaultConfigID", 19, 20),
     TraceCode("SetDefaultConfigID", 21, 22),
     TraceCode("SetLogLevel", 23, 24),
     TraceCode("UnregisterObserver", 27, 28)}

G2productTraceCodes ==
    {TraceCode("Destroy", 3, 4),
     TraceCode("GetSdkId", 25, 26),
     TraceCode("Init", 9, 10),
     TraceCode("License", 11, 12),
     TraceCode("RegisterObserver", 21, 22),
     TraceCode("SetLogLevel", 13, 14),
     TraceCode("UnregisterObserver", 23, 24),
     TraceCode("ValidateLicenseFile", 15, 16),
     TraceCode("ValidateLicenseStringBase64", 17, 18),
     TraceCode("Version", 19, 20)}

G2engineTraceCodes ==
    {TraceCode("AddRecord", 1, 2),
     TraceCode("AddRecordWithInfo", 3, 4),
     TraceCode("AddRecordWithInfoWithReturnedRecordID", 5, 6),
     TraceCode("AddRecordWithReturnedRecordID", 7, 8),
     TraceCode("CheckRecord", 9, 10),
     TraceCode("CloseExport", 13, 14),
     TraceCode("CountRedoRecords", 15, 16),
     TraceCode("DeleteRecord", 17, 18),
     TraceCode("DeleteRecordWithInfo", 19, 20),
     TraceCode("Destroy", 21, 22),
     TraceCode("ExportConfig", 25, 26),
     TraceCode("ExportConfigAndConfigID", 23, 24),
     TraceCode("ExportCSVEntityReport", 27, 28),
     TraceCode("ExportJSONEntityReport", 29, 30),
     TraceCode("FetchNext", 31, 32),
     TraceCode("FindInterestingEntitiesByEntityID", 33, 34),
     TraceCode("FindInterestingEntitiesByRecordID", 35, 36),
     TraceCode("FindNetworkByEntityID", 37, 38),
     TraceCode("FindNetworkByEntityID_V2", 39, 40),
     TraceCode("FindNetworkByRecordID", 41, 42),
     TraceCode("FindNetworkByRecordID_V2", 43, 44),
     TraceCode("FindPathByEntityID", 45, 46),
     TraceCode("FindPathByEntityID_V2", 47, 48),
     TraceCode("FindPathByRecordID", 49, 50),
     TraceCode("FindPathByRecordID_V2", 51, 52),
     TraceCode("FindPathExcludingByEntityID", 53, 54),
     TraceCode("FindPathExcludingByEntityID_V2", 55, 56),
     TraceCode("FindPathExcludingByRecordID", 57, 58),
     TraceCode("FindPathExcludingByRecordID_V2", 59, 60),
     TraceCode("FindPathIncludingSourceByEntityID", 61, 62),
     TraceCode("FindPathIncludingSourceByEntityID_V2", 63, 64),
     TraceCode("FindPathIncludingSourceByRecordID", 65, 66),
     TraceCode("FindPathIncludingSourceByRecordID_V2", 67, 68),
     TraceCode("GetActiveConfigID", 69, 70),
     TraceCode("GetEntityByEntityID", 71, 72),
     TraceCode("GetEntityByEntityID_V2", 73, 74),
     TraceCode("GetEntityByRecordID", 75, 76),
     TraceCode("GetEntityByRecordID_V2", 77, 78),
     TraceCode("GetRecord", 83, 84),
     TraceCode("GetRecord_V2", 85, 86),
     TraceCode("GetRedoRecord", 87, 88),
     TraceCode("GetRepositoryLastModifiedTime", 89, 90),
     TraceCode("GetSdkId", 161, 162),
     TraceCode("GetVirtualEntityByRecordID", 91, 92),
     TraceCode("GetVirtualEntityByRecordID_V2", 93, 94),
     TraceCode("HowEntityByEntityID", 95, 96),
     TraceCode("HowEntityByEntityID_V2", 97, 98),
     TraceCode("Init", 99, 100),
     TraceCode("InitWithConfigID", 101, 102),
     TraceCode("PrimeEngine", 103, 104),
     TraceCode("Process", 105, 106),
     TraceCode("ProcessRedoRecord", 107, 108),
     TraceCode("ProcessRedoRecordWithInfo", 109, 110),
     TraceCode("ProcessWithInfo", 111, 112),
     TraceCode("ProcessWithResponse", 113, 114),
     TraceCode("ProcessWithResponseResize", 115, 116),
     TraceCode("PurgeRepository", 117, 118),
     TraceCode("ReevaluateEntity", 119, 120),
     TraceCode("ReevaluateEntityWithInfo", 121, 122),
     TraceCode("ReevaluateRecord", 123, 124),
     TraceCode("ReevaluateRecordWithInfo", 125, 126),
     TraceCode("RegisterObserver", 157, 158),
     TraceCode("Reinit", 127, 128),
     TraceCode("ReplaceRecord", 129, 130),
     TraceCode("ReplaceRecordWithInfo", 131, 132),
     TraceCode("SearchByAttributes", 133, 134),
     TraceCode("SearchByAttributes_V2", 135, 136),
     TraceCode("SetLogLevel", 137, 138),
     TraceCode("Stats", 139, 140),
     TraceCode("UnregisterObserver", 159, 160),
     TraceCode("WhyEntities", 141, 142),
     TraceCode("WhyEntities_V2", 143, 144),
     TraceCode("WhyEntityByEntityID", 145, 146),
     TraceCode("WhyEntityByEntityID_V2", 147, 148),
     TraceCode("WhyEntityByRecordID", 149, 150),
     TraceCode("WhyEntityByRecordID_V2", 151, 152),
     TraceCode("WhyRecords", 153, 154),
     TraceCode("WhyRecords_V2", 155, 156)}

\* A table in which GetSdkId traces its entry with its exit code.
TraceCodesShared(g) ==
    LET codes == CASE g = "configmgr" -> G2configmgrTraceCodes
                   [] g = "engine" -> G2engineTraceCodes
                   [] g = "product" -> G2productTraceCodes
    IN {[r EXCEPT !.entry = IF r.name = "GetSdkId" THEN r.exit ELSE @] :
          r \in codes}

TraceCodes(g) ==
    CASE g = "configmgr" -> G2configmgrTraceCodes
      [] g = "engine" -> G2engineTraceCodes
      [] g = "product" -> G2productTraceCodes


\* ------------------------------------------------------------------ state
VARIABLES
    group,      \* the capability group of the facade under test
    isTrace,    \* client.isTrace
    logger,     \* client.logger: Nil, or the level of the created logger
    observers,  \* client.observers: absent (nil) or a subject with entries
    canned,     \* the canned-result fields of the client struct
    nsets,      \* the number of canned-field writes the harness has made
    pc,         \* the caller: "idle" or "body" (inside a facade method)
    cur,        \* the call in progress, or the last call made
    calls,      \* history: one record per call invoked, in order
    tasks,      \* dispatch goroutines launched and not yet finished
    inflight,   \* observer.UpdateObserver goroutines launched, not yet run
    received,   \* history: what each observer was handed, in order
    panicked,   \* Nil, or the method in which the process panicked
    lastCtx,    \* history: the ctx of the last call invoked, when tracked
    other,      \* the struct of a second facade instance of the group
    faults      \* what the libraries in use may refuse: a subset of Faults

vars == <<group, isTrace, logger, observers, canned, nsets, pc, cur, calls,
          tasks, inflight, received, panicked, lastCtx, other, faults>>

\* ---------------------------------------------- the subject (the registry)
\* entries[o] is the number of entries the subject holds for observer id o.
NoEntries == [o \in Observers |-> 0]

\* client.observers == nil
Absent == [present |-> FALSE, entries |-> NoEntries]

\* &subject.SubjectImpl{}
EmptySubject == [present |-> TRUE, entries |-> NoEntries]

\* Subject.RegisterObserver with duplicate entries (no membership test).
SubjectRegisterObserverDup(entries, o) == [entries EXCEPT ![o] = @ + 1]

\* Subject.RegisterObserver: membership is by observer id.
SubjectRegisterObserver(entries, o) ==
    IF entries[o] > 0 THEN entries ELSE [entries EXCEPT ![o] = 1]

\* The error of a Subject.RegisterObserver that fails.
AddError == "observer not added"

\* Subject.RegisterObserver as the facade sees it: the error it returns and
\* the entries it leaves. A failing add leaves the entries as they were.
SubjectRegisterOutcomes(entries, o, fl) ==
    {[err |-> Nil, entries |-> SubjectRegisterObserver(entries, o)]}
    \cup (IF "add" \in fl THEN {[err |-> AddError, entries |-> entries]}
          ELSE {})

\* Subject.UnregisterObserver: removes the entry of the observer id, if any.
SubjectUnregisterObserver(entries, o) ==
    [entries EXCEPT ![o] = IF @ > 0 THEN @ - 1 ELSE 0]

\* Subject.HasObservers
SubjectHasObservers(entries) == \E o \in Observers : entries[o] > 0

\* Subject.NotifyObservers: one UpdateObserver goroutine per entry.
SubjectNotifyObservers(entries, k, msg) ==
    UNION {{[obs |-> o, copy |-> c, call |-> k, msg |-> msg] :
              c \in 1..entries[o]} : o \in Observers}

\* The observers registered on the client.
Registered == {o \in Observers : observers.entries[o] > 0}

\* observer.GetObserverId
ObserverId(o) == "O" \o Itoa(o)

\* ------------------------------------------------------ logger and traces
\* getLogger: the logger is created at LevelInfo on first use.
GetLogger(lg) == IF lg = Nil THEN "INFO" ELSE lg

\* getLogger when the construction of the logger may fail: the error of
\* NewSenzingApiLogger is dropped and client.logger is left nil.
GetLoggerOutcomes(lg, fl) ==
    IF lg # Nil THEN {lg}
    ELSE {GetLogger(lg)} \cup (IF "logger" \in fl THEN {Nil} ELSE {})

\* A traceEntry that is not gated by the flag.
TraceEntryAlways(log, traced, code) == Append(log, <<"traceEntry", code>>)

\* A traceExit that fires before the body of the method.
TraceExitFirst(log, traced, code) ==
    IF traced THEN <<<<"traceExit", code>>>> \o log ELSE log

\* A traceExit that is never emitted.
TraceExitNever(log, traced, code) == log

\* traceEntry / traceExit, called only under "if client.isTrace".
TraceEntry(log, traced, code) ==
    IF traced THEN Append(log, <<"traceEntry", code>>) ELSE log
TraceExit(log, traced, code) ==
    IF traced THEN Append(log, <<"traceExit", code>>) ELSE log

\* ----------------------------------------------------------- notification
NoDetails == [x \in {} |-> ""]

\* The details map literal of an operation. A method with several string
\* arguments is modelled with one of them.
Details(op, arg, o, lvl, fields) ==
    (IF op.dArg # "" THEN op.dArg :> arg ELSE NoDetails)
    @@ (IF op.kind \in {"register", "unregister"}
        THEN "observerID" :> ObserverId(o) ELSE NoDetails)
    @@ (IF op.kind = "loglevel" THEN "logLevel" :> lvl ELSE NoDetails)
    @@ (IF op.dField # <<>>
        THEN op.dField[1] :> (IF op.dField[2] \in IntFields
                              THEN Itoa(fields[op.dField[2]])
                              ELSE fields[op.dField[2]])
        ELSE NoDetails)

\* A notify that never adds the error field.
MessageNoError(g, messageId, err, details) ==
    ("subjectId" :> Itoa(ProductId(g)))
    @@ ("messageId" :> Itoa(messageId))
    @@ ("messageTime" :> "UnixNano")
    @@ details

\* client.notify up to json.Marshal: the three injected fields overwrite
\* equally named details. The JSON object is kept as the map it encodes
\* (a map[string]string always marshals).
Message(g, messageId, err, details) ==
    ("subjectId" :> Itoa(ProductId(g)))
    @@ ("messageId" :> Itoa(messageId))
    @@ ("messageTime" :> "UnixNano")
    @@ (IF err # Nil THEN "error" :> err ELSE NoDetails)
    @@ details

\* The go func() of a facade method. The details literal is evaluated when
\* the goroutine runs; it reads client state only when it reports a canned
\* field, so every other task starts with its details built.
NewTask(k, op, arg, o, lvl, err) ==
    [call |-> k, op |-> op, arg |-> arg, obs |-> o, level |-> lvl,
     err |-> err,
     phase |-> IF op.dField # <<>> THEN "launched" ELSE "built",
     details |-> IF op.dField # <<>> THEN NoDetails
                 ELSE Details(op, arg, o, lvl, canned)]

NoOp == Op("", "none", 0, 0, 0, <<>>, FALSE, "", <<>>)

\* The canned fields an operation reads.
OpFields(op) ==
    {op.results[i] : i \in 1..Len(op.results)}
    \cup (IF op.dField # <<>> THEN {op.dField[2]} ELSE {})

\* The string arguments tried for an operation.
OpArgs(op) == IF op.dArg # "" THEN Args ELSE {""}

\* time.Now() as a logical clock: the number of steps the method has made.
Now(log) == Len(log)

\* No interval: time.Since is evaluated only under "if client.isTrace".
NoElapsed == [from |-> -1, to |-> -1]

\* time.Since(entryTime), an argument of the defer statement: it is
\* evaluated when the defer statement is reached.
Since(entryTime, log, traced) ==
    IF traced THEN [from |-> entryTime, to |-> Now(log)] ELSE NoElapsed

NewCall(op, arg, o, lvl, log) ==
    [op |-> op, arg |-> arg, obs |-> o, level |-> lvl, log |-> log,
     traced |-> isTrace, addErr |-> Nil,
     entryTime |-> Now(TraceEntry(<<>>, isTrace, op.entry)),
     elapsed |-> NoElapsed, ret |-> <<>>, err |-> Nil, returned |-> FALSE,
     held |-> [f \in OpFields(op) |-> canned[f]],
     fresh |-> (nsets = 0), before |-> observers, published |-> {}]

CallRecord(op, o) ==
    [op |-> op.name, event |-> op.event, who |-> o, obs |-> Registered,
     launched |-> FALSE]

\* ------------------------------------------------------------------- Init
\* The ctx of a call is recorded only in runs that track it.
Untracked == "untracked"
Track(last, ctx) == IF last = Untracked THEN Untracked ELSE ctx

\* The ctx in scope in the second half of a method is the ctx of the call.
SameCtx(ctx) == lastCtx \in {Untracked, ctx}

\* &G2configmgr{}, &G2engine{}, &G2product{}: the zero-value struct.
NewClient(g) ==
    [isTrace |-> FALSE, logger |-> Nil, observers |-> Absent,
     canned |-> [f \in Fields(g) |-> ZeroValue(f)]]

InitClient ==
    /\ group \in Groups
    /\ isTrace = FALSE
    /\ logger = Nil
    /\ observers = Absent
    /\ canned = [f \in Fields(group) |-> ZeroValue(f)]
    /\ nsets = 0
    /\ pc = "idle"
    /\ cur = NewCall(NoOp, "", 0, Nil, <<>>)
    /\ calls = <<>>
    /\ tasks = {}
    /\ inflight = {}
    /\ received = [o \in Observers |-> <<>>]
    /\ panicked = Nil

Init ==
    /\ InitClient
    /\ lastCtx = Untracked
    /\ other = NewClient(group)
    /\ faults = {}

\* The calls a run makes: fewer in the runs that record each call's ctx and
\* in the runs in which a library may fail.
CallBudget ==
    IF faults # {} THEN MaxFaultCalls
    ELSE IF lastCtx = Untracked THEN MaxCalls ELSE MaxTrackedCalls

CanInvoke == pc = "idle" /\ panicked = Nil /\ Len(calls) < CallBudget


\* ------------------------------------------------ the harness sets a field
SetCanned(f, v) ==
    /\ CanInvoke
    /\ nsets < MaxSets
    /\ f \in Fields(group) /\ v \in FieldValues(f) /\ canned[f] # v
    /\ canned' = [canned EXCEPT ![f] = v]
    /\ nsets' = nsets + 1
    /\ UNCHANGED <<group, other, faults, lastCtx, isTrace, logger, observers, pc,
                   cur, calls, tasks,
                   inflight, received, panicked>>

\* ------------------------- methods that return canned fields (or GetSdkId)
\* A method that hands back a canned error instead of nil.
VarErrCanned == "canned error"

\* var err error = nil
VarErr == Nil

\* A return statement that ignores the canned fields.
ResultsUnset(op, fields) ==
    IF op.kind = "sdkid" THEN <<"mock">>
    ELSE [i \in 1..Len(op.results) |->
            IF op.results[i] \in IntFields THEN 0 ELSE ""]

\* A GetSdkId that returns an (unset) canned field instead of the literal.
ResultsNoLiteral(op, fields) ==
    IF op.kind = "sdkid" THEN <<"">>
    ELSE [i \in 1..Len(op.results) |-> fields[op.results[i]]]

\* The values of the return statement.
Results(op, fields) ==
    IF op.kind = "sdkid" THEN <<"mock">>
    ELSE [i \in 1..Len(op.results) |-> fields[op.results[i]]]

\* A launch that does not look at client.observers.
LaunchAlways(ctx, obs) == TRUE

\* A launch that is skipped when the context is cancelled or expired.
LaunchUnlessDone(ctx, obs) == obs.present /\ ctx = "live"

\* if client.observers != nil { go func() {...}() }: ctx is in scope and is
\* not consulted.
LaunchDispatch(ctx, obs) == obs.present

\* From the method's entry to the launch of its goroutine.
FacadeCall(ctx, op, arg) ==
    /\ CanInvoke
    /\ op \in OpsOfKind(group, "data") \cup OpsOfKind(group, "sdkid")
    /\ LET k == Len(calls) + 1
           launch == LaunchDispatch(ctx, observers)
           log1 == TraceEntry(<<>>, isTrace, op.entry)
           log2 == IF launch THEN Append(log1, <<"launch", op.event>>)
                   ELSE log1
       IN /\ logger' = IF isTrace THEN GetLogger(logger) ELSE logger
          /\ tasks' = IF launch
                      THEN tasks \cup {NewTask(k, op, arg, 0, Nil, VarErr)}
                      ELSE tasks
          /\ calls' = Append(calls,
                             [CallRecord(op, 0) EXCEPT !.launched = launch])
          /\ cur' = NewCall(op, arg, 0, Nil, log2)
    /\ pc' = "body"
    /\ UNCHANGED <<group, other, faults, isTrace, observers, canned, nsets, inflight,
                   received, panicked>>

\* A return that first waits for the call's notification to be delivered.
FacadeReturnWaits(ctx) ==
    /\ pc = "body" /\ panicked = Nil
    /\ cur.op.kind \in {"data", "sdkid"}
    /\ \A t \in tasks : t.call # Len(calls)
    /\ \A d \in inflight : d.call # Len(calls)
    /\ cur' = [cur EXCEPT
                 !.ret = Results(cur.op, canned),
                 !.err = VarErr,
                 !.returned = TRUE,
                 !.elapsed = Since(cur.entryTime, cur.log, isTrace),
                 !.log = TraceExit(Append(@, <<"result", cur.op.event>>),
                                   isTrace, cur.op.exit)]
    /\ pc' = "idle"
    /\ UNCHANGED <<group, other, faults, isTrace, logger, observers, canned, nsets, calls,
                   tasks, inflight, received, panicked>>

\* A return that consumes the canned fields it hands back.
FacadeReturnConsumes(ctx) ==
    /\ pc = "body" /\ panicked = Nil
    /\ cur.op.kind \in {"data", "sdkid"}
    /\ cur' = [cur EXCEPT
                 !.ret = Results(cur.op, canned),
                 !.err = VarErr,
                 !.returned = TRUE,
                 !.elapsed = Since(cur.entryTime, cur.log, isTrace),
                 !.log = TraceExit(Append(@, <<"result", cur.op.event>>),
                                   isTrace, cur.op.exit)]
    /\ canned' = [f \in Fields(group) |->
                    IF f \in OpFields(cur.op) THEN ZeroValue(f) ELSE canned[f]]
    /\ pc' = "idle"
    /\ UNCHANGED <<group, other, faults, isTrace, logger, observers, nsets,
                   calls, tasks, inflight, received, panicked>>

\* A return that also switches tracing off.
FacadeReturnResetsTrace(ctx) ==
    /\ pc = "body" /\ panicked = Nil
    /\ cur.op.kind \in {"data", "sdkid"}
    /\ cur' = [cur EXCEPT
                 !.ret = Results(cur.op, canned),
                 !.err = VarErr,
                 !.returned = TRUE,
                 !.elapsed = Since(cur.entryTime, cur.log, isTrace),
                 !.log = TraceExit(Append(@, <<"result", cur.op.event>>),
                                   isTrace, cur.op.exit)]
    /\ isTrace' = FALSE
    /\ pc' = "idle"
    /\ UNCHANGED <<group, other, faults, logger, observers, canned, nsets,
                   calls, tasks, inflight, received, panicked>>

\* The defer statement, the return statement and the deferred traceExit.
FacadeReturn(ctx) ==
    /\ pc = "body" /\ panicked = Nil
    /\ cur.op.kind \in {"data", "sdkid"}
    /\ cur' = [cur EXCEPT
                 !.ret = Results(cur.op, canned),
                 !.err = VarErr,
                 !.returned = TRUE,
                 !.elapsed = Since(cur.entryTime, cur.log, isTrace),
                 !.log = TraceExit(Append(@, <<"result", cur.op.event>>),
                                   isTrace, cur.op.exit)]
    /\ pc' = "idle"
    /\ UNCHANGED <<group, other, faults, isTrace, logger, observers, canned, nsets, calls,
                   tasks, inflight, received, panicked>>

\* A flag that, once a level has been set, stays on.
IsTraceLevelSticky(lvl) == TRUE

\* client.isTrace = (client.getLogger().GetLogLevel() == LevelTrace)
IsTraceLevel(lvl) == lvl = "TRACE"

\* ------------------------------------------------------------ SetLogLevel
\* A SetLogLevel on a logger that the instances of a group share.
SetLogLevelCallShared(ctx, lvl) ==
    /\ CanInvoke
    /\ lvl \in Levels
    /\ \E op \in OpsOfKind(group, "loglevel") :
         LET k == Len(calls) + 1
             launch == LaunchDispatch(ctx, observers)
             log1 == TraceEntry(<<>>, isTrace, op.entry)
             log2 == IF launch THEN Append(log1, <<"launch", op.event>>)
                     ELSE log1
         IN /\ logger' = lvl
            /\ isTrace' = IsTraceLevel(lvl)
            /\ other' = [other EXCEPT !.logger = lvl]
            /\ UNCHANGED faults
            /\ tasks' = IF launch
                        THEN tasks \cup {NewTask(k, op, "", 0, lvl, VarErr)}
                        ELSE tasks
            /\ calls' = Append(calls,
                               [CallRecord(op, 0) EXCEPT !.launched = launch])
            /\ cur' = NewCall(op, "", 0, lvl, log2)
    /\ pc' = "body"
    /\ UNCHANGED <<group, observers, canned, nsets, inflight, received,
                   panicked>>

SetLogLevelCall(ctx, lvl) ==
    /\ CanInvoke
    /\ lvl \in Levels
    /\ \E op \in OpsOfKind(group, "loglevel") :
       \E lg \in GetLoggerOutcomes(logger, faults) :
         LET k == Len(calls) + 1
             launch == LaunchDispatch(ctx, observers)
             log1 == TraceEntry(<<>>, isTrace, op.entry)
             log2 == IF launch THEN Append(log1, <<"launch", op.event>>)
                     ELSE log1
         IN IF lg = Nil
            THEN \* client.getLogger().SetLogLevel on a nil logger
                 /\ panicked' = "getLogger"
                 /\ calls' = Append(calls, CallRecord(op, 0))
                 /\ cur' = NewCall(op, "", 0, lvl, log1)
                 /\ UNCHANGED <<logger, isTrace, tasks>>
            ELSE /\ logger' = lvl
                 /\ isTrace' = IsTraceLevel(lvl)
                 /\ tasks' = IF launch
                             THEN tasks \cup {NewTask(k, op, "", 0, lvl, VarErr)}
                             ELSE tasks
                 /\ calls' = Append(calls,
                                    [CallRecord(op, 0) EXCEPT !.launched = launch])
                 /\ cur' = NewCall(op, "", 0, lvl, log2)
                 /\ UNCHANGED panicked
    /\ pc' = "body"
    /\ UNCHANGED <<group, other, faults, observers, canned, nsets, inflight,
                   received>>

SetLogLevelReturn(ctx) ==
    /\ pc = "body" /\ panicked = Nil
    /\ cur.op.kind = "loglevel"
    /\ cur' = [cur EXCEPT
                 !.err = VarErr,
                 !.returned = TRUE,
                 !.elapsed = Since(cur.entryTime, cur.log, isTrace),
                 !.log = TraceExit(Append(@, <<"result", cur.op.event>>),
                                   isTrace, cur.op.exit)]
    /\ pc' = "idle"
    /\ UNCHANGED <<group, other, faults, isTrace, logger, observers, canned, nsets, calls,
                   tasks, inflight, received, panicked>>

\* ------------------------------------------------------- RegisterObserver
\* Up to the creation of the subject when the client has none.
RegisterObserverCall(ctx, o) ==
    /\ CanInvoke
    /\ o \in Observers
    /\ \E op \in OpsOfKind(group, "register") :
         /\ calls' = Append(calls, CallRecord(op, o))
         /\ cur' = NewCall(op, "", o, Nil, TraceEntry(<<>>, isTrace, op.entry))
    /\ logger' = IF isTrace THEN GetLogger(logger) ELSE logger
    /\ observers' = IF observers.present THEN observers ELSE EmptySubject
    /\ pc' = "body"
    /\ UNCHANGED <<group, other, faults, isTrace, canned, nsets, tasks, inflight, received,
                   panicked>>

\* A RegisterObserver that reports success whatever the subject returned.
RegisterReturnsNil(err) == Nil

\* err := client.observers.RegisterObserver(ctx, observer) ... return err
RegisterReturns(err) == err

\* The add, the launch of the goroutine, and the return.
RegisterObserverReturn(ctx) ==
    /\ pc = "body" /\ panicked = Nil
    /\ cur.op.kind = "register"
    /\ \E add \in SubjectRegisterOutcomes(observers.entries, cur.obs, faults) :
       LET k == Len(calls)
           err == add.err
           launch == LaunchDispatch(ctx, observers)
       IN /\ observers' = [observers EXCEPT !.entries = add.entries]
          /\ tasks' = IF launch
                      THEN tasks \cup {NewTask(k, cur.op, "", cur.obs, Nil, err)}
                      ELSE tasks
          /\ calls' = [calls EXCEPT ![k].launched = launch]
          /\ cur' = [cur EXCEPT
                       !.err = RegisterReturns(err),
                       !.addErr = add.err,
                       !.returned = TRUE,
                       !.elapsed = Since(cur.entryTime,
                                         IF launch
                                         THEN Append(cur.log,
                                                     <<"launch", cur.op.event>>)
                                         ELSE cur.log,
                                         isTrace),
                       !.log = TraceExit(
                                 Append(IF launch
                                        THEN Append(@, <<"launch", cur.op.event>>)
                                        ELSE @,
                                        <<"result", cur.op.event>>),
                                 isTrace, cur.op.exit)]
    /\ pc' = "idle"
    /\ UNCHANGED <<group, other, faults, isTrace, logger, canned, nsets, inflight,
                   received, panicked>>


\* ----------------------------------------------------- UnregisterObserver
\* Removal first, notification of the remaining observers afterwards.
UnregisterRemoveThenNotify(entries, o, k, msg) ==
    [published |->
       SubjectNotifyObservers(SubjectUnregisterObserver(entries, o), k, msg),
     entries |-> SubjectUnregisterObserver(entries, o)]

\* The synchronous client.notify on the subject as it is, then the removal.
UnregisterNotifyThenRemove(entries, o, k, msg) ==
    [published |-> SubjectNotifyObservers(entries, k, msg),
     entries |-> SubjectUnregisterObserver(entries, o)]

\* A method call on client.observers: on a nil interface value it panics.
CallOnObservers(obs) == IF obs.present THEN Nil ELSE "UnregisterObserver"

\* Up to client.observers.UnregisterObserver.
UnregisterObserverCall(ctx, o) ==
    /\ CanInvoke
    /\ o \in Observers
    /\ \E op \in OpsOfKind(group, "unregister") :
         LET k == Len(calls) + 1
             log1 == TraceEntry(<<>>, isTrace, op.entry)
             msg == Message(group, op.event, VarErr,
                            Details(op, "", o, Nil, canned))
             step == UnregisterNotifyThenRemove(observers.entries, o, k, msg)
         IN /\ calls' = Append(calls, CallRecord(op, o))
            /\ IF observers.present
               THEN /\ inflight' = inflight \cup step.published
                    /\ observers' = [observers EXCEPT !.entries = step.entries]
                    /\ cur' = [NewCall(op, "", o, Nil,
                                       Append(log1, <<"notify", op.event>>))
                               EXCEPT !.published = step.published]
               ELSE /\ cur' = NewCall(op, "", o, Nil, log1)
                    /\ UNCHANGED <<inflight, observers>>
    /\ panicked' = CallOnObservers(observers)
    /\ logger' = IF isTrace THEN GetLogger(logger) ELSE logger
    /\ pc' = "body"
    /\ UNCHANGED <<group, other, faults, isTrace, canned, nsets, tasks, received>>

\* The subject is kept even when it holds no observer.
ClearNever(obs) == obs

\* if !client.observers.HasObservers(ctx) { client.observers = nil }
ClearWhenEmpty(obs) ==
    IF SubjectHasObservers(obs.entries) THEN obs ELSE Absent

\* HasObservers, the clearing of client.observers, and the return.
UnregisterObserverReturn(ctx) ==
    /\ pc = "body" /\ panicked = Nil
    /\ cur.op.kind = "unregister"
    /\ observers' = ClearWhenEmpty(observers)
    /\ cur' = [cur EXCEPT
                 !.err = Nil,
                 !.returned = TRUE,
                 !.elapsed = Since(cur.entryTime, cur.log, isTrace),
                 !.log = TraceExit(Append(@, <<"result", cur.op.event>>),
                                   isTrace, cur.op.exit)]
    /\ pc' = "idle"
    /\ UNCHANGED <<group, other, faults, isTrace, logger, canned, nsets, calls, tasks,
                   inflight, received, panicked>>

\* ------------------------------------------------------------- goroutines
\* The goroutine evaluates its details literal (reads a canned field).
DispatchBuild(t) ==
    /\ panicked = Nil
    /\ t \in tasks /\ t.phase = "launched"
    /\ tasks' = (tasks \ {t}) \cup
                {[t EXCEPT !.phase = "built",
                           !.details = Details(t.op, t.arg, t.obs, t.level,
                                               canned)]}
    /\ UNCHANGED <<group, other, faults, lastCtx, isTrace, logger, observers, canned, nsets, pc,
                   cur, calls, inflight, received, panicked>>

\* Dispatch goroutines that run in the order in which they were launched.
DispatchNotifyInOrder(t) ==
    /\ panicked = Nil
    /\ t \in tasks /\ t.phase = "built"
    /\ \A u \in tasks : u.call >= t.call
    /\ tasks' = tasks \ {t}
    /\ IF observers.present
       THEN /\ inflight' = inflight \cup
                 SubjectNotifyObservers(observers.entries, t.call,
                     Message(group, t.op.event, t.err, t.details))
            /\ UNCHANGED panicked
       ELSE /\ panicked' = "notify"
            /\ UNCHANGED inflight
    /\ UNCHANGED <<group, other, faults, lastCtx, isTrace, logger, observers, canned,
                   nsets, pc, cur, calls, received>>

\* A dispatch that publishes to the observers registered when the call was
\* invoked.
DispatchNotifySnapshot(t) ==
    /\ panicked = Nil
    /\ t \in tasks /\ t.phase = "built"
    /\ tasks' = tasks \ {t}
    /\ inflight' = inflight \cup
         SubjectNotifyObservers(
             [o \in Observers |-> IF o \in calls[t.call].obs THEN 1 ELSE 0],
             t.call, Message(group, t.op.event, t.err, t.details))
    /\ UNCHANGED <<group, other, faults, lastCtx, isTrace, logger, observers,
                   canned, nsets, pc, cur, calls, received, panicked>>

\* A dispatch whose goroutine stays around and can publish again.
DispatchNotifyKeeps(t) ==
    /\ panicked = Nil
    /\ t \in tasks /\ t.phase = "built"
    /\ IF observers.present
       THEN /\ inflight' = inflight \cup
                 SubjectNotifyObservers(observers.entries, t.call,
                     Message(group, t.op.event, t.err, t.details))
            /\ UNCHANGED panicked
       ELSE /\ panicked' = "notify"
            /\ UNCHANGED inflight
    /\ UNCHANGED <<group, other, faults, lastCtx, isTrace, logger, observers,
                   canned, nsets, pc, cur, calls, tasks, received>>

\* client.notify in the goroutine: client.observers is read now.
DispatchNotify(t) ==
    /\ panicked = Nil
    /\ t \in tasks /\ t.phase = "built"
    /\ tasks' = tasks \ {t}
    /\ IF observers.present
       THEN /\ inflight' = inflight \cup
                 SubjectNotifyObservers(observers.entries, t.call,
                     Message(group, t.op.event, t.err, t.details))
            /\ UNCHANGED panicked
       ELSE /\ panicked' = "notify"
            /\ UNCHANGED inflight
    /\ UNCHANGED <<group, other, faults, lastCtx, isTrace, logger, observers, canned, nsets, pc,
                   cur, calls, received>>

\* observer.UpdateObserver runs in its own goroutine.
UpdateObserver(d) ==
    /\ panicked = Nil
    /\ d \in inflight
    /\ inflight' = inflight \ {d}
    /\ received' = [received EXCEPT
                      ![d.obs] = Append(@, [call |-> d.call, msg |-> d.msg])]
    /\ UNCHANGED <<group, other, faults, lastCtx, isTrace, logger, observers, canned, nsets, pc,
                   cur, calls, tasks, panicked>>

\* ---------------------------------------------------------- specification
\* The second half of a method, with the ctx of the call in scope.
CallerReturn ==
    \E c \in Contexts :
        /\ SameCtx(c)
        /\ \/ FacadeReturn(c)
           \/ SetLogLevelReturn(c)
           \/ RegisterObserverReturn(c)
           \/ UnregisterObserverReturn(c)
        /\ UNCHANGED lastCtx

\* The harness: it sets canned fields and invokes the methods, each with
\* any ctx.
Caller ==
    \/ \E f \in Fields(group) : \E v \in FieldValues(f) : SetCanned(f, v)
    \/ \E c \in Contexts : \E op \in GroupOps(group) : \E a \in OpArgs(op) :
         FacadeCall(c, op, a) /\ lastCtx' = Track(lastCtx, c)
    \/ \E c \in Contexts : \E l \in Levels :
         SetLogLevelCall(c, l) /\ lastCtx' = Track(lastCtx, c)
    \/ \E c \in Contexts : \E o \in Observers :
         RegisterObserverCall(c, o) /\ lastCtx' = Track(lastCtx, c)
    \/ \E c \in Contexts : \E o \in Observers :
         UnregisterObserverCall(c, o) /\ lastCtx' = Track(lastCtx, c)
    \/ \E c \in Contexts :
         SameCtx(c) /\ FacadeReturn(c) /\ UNCHANGED lastCtx
    \/ \E c \in Contexts :
         SameCtx(c) /\ SetLogLevelReturn(c) /\ UNCHANGED lastCtx
    \/ \E c \in Contexts :
         SameCtx(c) /\ RegisterObserverReturn(c) /\ UNCHANGED lastCtx
    \/ \E c \in Contexts :
         SameCtx(c) /\ UnregisterObserverReturn(c) /\ UNCHANGED lastCtx

Goroutines ==
    \/ \E t \in tasks : DispatchBuild(t)
    \/ \E t \in tasks : DispatchNotify(t)
    \/ \E d \in inflight : UpdateObserver(d)

Next == Caller \/ Goroutines

Spec == Init /\ [][Next]_vars

\* The same facade in runs that record the ctx of each call.
CtxInit ==
    /\ InitClient
    /\ lastCtx = "none"
    /\ other = NewClient(group)
    /\ faults = {}

CtxSpec == CtxInit /\ [][Next]_vars

\* The same facade next to a second instance that is in use: traced, with
\* observer 2 registered and its canned fields set. The struct has no field
\* that the instances share, and the packages have no variables.
UsedClient(g) ==
    [isTrace |-> TRUE, logger |-> "TRACE",
     observers |-> [present |-> TRUE,
                    entries |-> [o \in Observers |-> IF o = 2 THEN 1 ELSE 0]],
     canned |-> [f \in Fields(g) |-> IF f \in IntFields THEN 42 ELSE "v"]]

TwoInit ==
    /\ InitClient
    /\ lastCtx = Untracked
    /\ other = UsedClient(group)
    /\ faults = {}

TwoSpec == TwoInit /\ [][Next]_vars

\* The same facade on a subject whose RegisterObserver may fail.
FailInit ==
    /\ InitClient
    /\ lastCtx = Untracked
    /\ other = NewClient(group)
    /\ faults = {"add"}

FailSpec == FailInit /\ [][Next]_vars

\* The facade when the construction of its logger may fail.
LogFailInit ==
    /\ InitClient
    /\ lastCtx = Untracked
    /\ other = NewClient(group)
    /\ faults = {"logger"}

LogFailSpec == LogFailInit /\ [][Next]_vars

\* ------------------------------------------- client.notify on its own
\* The err values handed to client.notify.
NotifyErrors == {Nil, "observer exists"}

\* The subjects client.notify may find: any set of registered observers.
Subjects == {[present |-> TRUE, entries |-> e] : e \in [Observers -> {0, 1}]}

\* One pending call of client.notify(ctx, messageId, err, details) for each
\* operation, argument and err; cur records the arguments it was given.
NotifyInit ==
    /\ group \in Groups
    /\ isTrace = FALSE
    /\ logger = Nil
    /\ observers \in Subjects
    /\ canned = [f \in Fields(group) |-> ZeroValue(f)]
    /\ nsets = 0
    /\ pc = "idle"
    /\ \E op \in GroupOps(group) : \E a \in OpArgs(op) : \E e \in NotifyErrors :
       \E o \in (IF op.kind \in {"register", "unregister"}
                 THEN Observers ELSE {0}) :
       \E l \in (IF op.kind = "loglevel" THEN Levels ELSE {Nil}) :
         /\ cur = [NewCall(op, a, o, l, <<>>) EXCEPT !.err = e]
         /\ calls = <<CallRecord(op, o)>>
         /\ tasks = {[NewTask(1, op, a, o, l, e) EXCEPT
                        !.phase = "built",
                        !.details = Details(op, a, o, l, canned)]}
    /\ inflight = {}
    /\ received = [o \in Observers |-> <<>>]
    /\ panicked = Nil
    /\ lastCtx = Untracked
    /\ other = NewClient(group)
    /\ faults = {}

NotifyNext ==
    \/ \E t \in tasks : DispatchNotify(t)
    \/ \E d \in inflight : UpdateObserver(d)

NotifySpec == NotifyInit /\ [][NotifyNext]_vars


\* ----------------------------------------------------------------- claims
SingleResult(op) == op.kind = "data" /\ Len(op.results) = 1

\* The entries of a log, by step name.
Steps(log) == [i \in 1..Len(log) |-> log[i][1]]

\* The zero value of a result position: 0 for int64, "" for string.
IsZeroResult(op, i, v) ==
    IF op.kind = "data" /\ op.results[i] \in IntFields THEN v = 0 ELSE v = ""

\* C1: a single-result operation whose canned field held V when it was
\* invoked returns exactly V and a nil error, whatever its argument, the
\* tracing flag and the registry.
C1_ReturnsCannedValue ==
    (cur.returned /\ SingleResult(cur.op))
        => /\ cur.ret = <<cur.held[cur.op.results[1]]>>
           /\ cur.err = Nil

\* A traced call made with an observer registered returned a set value.
C1_Witness ==
    /\ cur.returned /\ SingleResult(cur.op)
    /\ ~IsZeroResult(cur.op, 1, cur.ret[1])
    /\ cur.before.present
    /\ Steps(cur.log) = <<"traceEntry", "launch", "result", "traceExit">>

C4_UnregisterAbsentIsNoOp ==
    (cur.op.kind = "unregister" /\ ~cur.before.present)
        => /\ panicked # "UnregisterObserver"
           /\ ~observers.present


\* The number of notifications of call k handed to observer o.
Received(o, k) ==
    Cardinality({i \in 1..Len(received[o]) : received[o][i].call = k})

\* The UpdateObserver goroutines of call k for observer o not yet run.
Pending(o, k) == {d \in inflight : d.obs = o /\ d.call = k}

\* The dispatch of call k has run its course: the call has returned and
\* none of its goroutines is left to run.
Settled(k) ==
    /\ k < Len(calls) \/ pc = "idle"
    /\ \A t \in tasks : t.call # k
    /\ \A d \in inflight : d.call # k

\* C5: each observer registered when an operation is invoked has received,
\* once the call's dispatch has run its course, exactly one notification of
\* that call, carrying the operation's event id and the group's subject id.
C5_EachObserverNotifiedOnce ==
    \A k \in 1..Len(calls) :
        Settled(k) =>
            \A o \in calls[k].obs :
                /\ Received(o, k) = 1
                /\ \A i \in 1..Len(received[o]) :
                     received[o][i].call = k =>
                       /\ received[o][i].msg["messageId"] = Itoa(calls[k].event)
                       /\ received[o][i].msg["subjectId"] = Itoa(ProductId(group))

C7_RegistrationIdempotent ==
    /\ \A o \in Observers : observers.entries[o] <= 1
    /\ \A o \in Observers : \A k \in 1..Len(calls) :
         Received(o, k) + Cardinality(Pending(o, k)) <= 1
    /\ (cur.op.kind = "unregister" /\ cur.returned)
         => observers.entries[cur.obs] = 0

\* The same observer was registered twice and then unregistered once.
C7_Witness ==
    /\ Len(calls) = 3 /\ cur.returned
    /\ calls[1].op = "RegisterObserver" /\ calls[2].op = "RegisterObserver"
    /\ calls[3].op = "UnregisterObserver"
    /\ calls[1].who = calls[2].who /\ calls[2].who = calls[3].who
    /\ Cardinality(cur.published) = 1
    /\ ~observers.present

\* C8: UnregisterObserver(O) for an O that is not registered does not panic
\* and leaves the registered observers and the registry's presence as they
\* were.
C8_UnregisterUnknownIsNoOp ==
    (cur.op.kind = "unregister" /\ cur.before.entries[cur.obs] = 0)
        => /\ panicked # "UnregisterObserver"
           /\ cur.returned => observers = cur.before

\* The event id of each group's unregister notification, as text.
UnregisterMessageId ==
    CASE group = "configmgr" -> "8012"
      [] group = "engine" -> "8078"
      [] group = "product" -> "8010"

\* C9: UnregisterObserver publishes its notification to the observers
\* registered before the removal (O among them when O was registered).
C9_NotifiesBeforeRemoval ==
    (cur.op.kind = "unregister" /\ cur.before.present)
        => /\ {d.obs : d \in cur.published}
                = {o \in Observers : cur.before.entries[o] > 0}
           /\ cur.before.entries[cur.obs] > 0
                => cur.obs \in {d.obs : d \in cur.published}
           /\ \A d \in cur.published :
                /\ d.msg["messageId"] = UnregisterMessageId
                /\ d.call = Len(calls)
           /\ cur.published \subseteq
                inflight \cup {d \in cur.published :
                                 Received(d.obs, d.call) > 0}

\* A registered observer was unregistered while another stayed registered.
C9_Witness ==
    /\ cur.op.kind = "unregister" /\ cur.returned
    /\ cur.before.entries[cur.obs] = 1
    /\ Cardinality(cur.published) = 2
    /\ observers.present

\* C10: a call in progress can always return, whatever dispatch goroutines
\* and deliveries are still pending.
C10_ReturnsWithoutWaiting ==
    (pc = "body" /\ panicked = Nil) => ENABLED CallerReturn

\* A call has returned while its own dispatch goroutine has not yet run.
C10_Witness ==
    /\ pc = "idle" /\ cur.returned
    /\ \E t \in tasks : t.call = Len(calls)
    /\ inflight # {}

C12_NoTraceWhenDisabledAtInvocation ==
    ~cur.traced =>
        \A i \in 1..Len(cur.log) :
            cur.log[i][1] \notin {"traceEntry", "traceExit"}

\* C12 amended: a call invoked with tracing disabled emits no trace-entry,
\* and emits a trace-exit only when it is SetLogLevel(TRACE), which sets the
\* flag before the exit is reached.
C12_NoTraceUnlessEnabledByTheCall ==
    ~cur.traced =>
        \A i \in 1..Len(cur.log) :
            /\ cur.log[i][1] # "traceEntry"
            /\ cur.log[i][1] = "traceExit"
                 => (cur.op.kind = "loglevel" /\ cur.level = "TRACE")

\* An untraced data call returned with an observer registered.
C12_Witness ==
    /\ cur.returned /\ ~cur.traced /\ cur.op.kind = "data"
    /\ cur.before.present
    /\ Steps(cur.log) = <<"launch", "result">>

\* The position of a step in the order of a method body.
StepRank(s) ==
    CASE s = "traceEntry" -> 1
      [] s \in {"launch", "notify"} -> 2
      [] s = "result" -> 3
      [] s = "traceExit" -> 4

C14_MessageIdTellsOperation ==
    \A o \in Observers : \A i, j \in 1..Len(received[o]) :
        received[o][i].msg["messageId"] = received[o][j].msg["messageId"]
            => calls[received[o][i].call].op = calls[received[o][j].call].op

\* C15: GetSdkId returns "mock" (and, where it has an error result, nil)
\* whatever the canned fields, the tracing flag and the registry.
C15_GetSdkIdReturnsMock ==
    (cur.returned /\ cur.op.kind = "sdkid")
        => /\ cur.ret = <<"mock">>
           /\ cur.op.hasErr => cur.err = Nil

\* A traced GetSdkId of the product facade returned with an observer
\* registered and a canned field set.
C15_Witness ==
    /\ cur.returned /\ cur.op.kind = "sdkid" /\ group = "product"
    /\ cur.traced /\ cur.before.present /\ nsets > 0

\* The notifications published so far, delivered or not.
Published ==
    {d.msg : d \in inflight}
    \cup UNION {{received[o][i].msg : i \in 1..Len(received[o])} :
                  o \in Observers}

\* C16: every notification published by client.notify(messageId, err,
\* details) holds the details, subjectId (the group's product id), messageId
\* (the id passed), messageTime, and an error field exactly when err is not
\* nil; it holds nothing else.
C16_NotificationFields ==
    \A msg \in Published :
        LET details == Details(cur.op, cur.arg, cur.obs, cur.level, canned)
        IN /\ \A key \in DOMAIN details : msg[key] = details[key]
           /\ msg["subjectId"] = Itoa(ProductId(group))
           /\ msg["messageId"] = Itoa(cur.op.event)
           /\ "messageTime" \in DOMAIN msg
           /\ "error" \in DOMAIN msg <=> cur.err # Nil
           /\ cur.err # Nil => msg["error"] = cur.err
           /\ DOMAIN msg \subseteq
                DOMAIN details
                \cup {"subjectId", "messageId", "messageTime", "error"}

\* An observer was handed the notification of a RegisterObserver that
\* failed: it holds the observer id and the error.
C16_Witness ==
    \E o \in Observers :
        /\ Len(received[o]) = 1
        /\ cur.op.kind = "register"
        /\ {"observerID", "error"} \subseteq DOMAIN received[o][1].msg

\* A step of the caller made with context c1 is the same step made with
\* context c2: same guard, same results, same client state, same launch.
SameStep(c1, c2) ==
    /\ \A op \in GroupOps(group) : \A a \in OpArgs(op) :
         FacadeCall(c1, op, a) <=> FacadeCall(c2, op, a)
    /\ \A l \in Levels : SetLogLevelCall(c1, l) <=> SetLogLevelCall(c2, l)
    /\ \A o \in Observers :
         RegisterObserverCall(c1, o) <=> RegisterObserverCall(c2, o)
    /\ \A o \in Observers :
         UnregisterObserverCall(c1, o) <=> UnregisterObserverCall(c2, o)
    /\ FacadeReturn(c1) <=> FacadeReturn(c2)
    /\ SetLogLevelReturn(c1) <=> SetLogLevelReturn(c2)
    /\ RegisterObserverReturn(c1) <=> RegisterObserverReturn(c2)
    /\ UnregisterObserverReturn(c1) <=> UnregisterObserverReturn(c2)

\* C17: every step of every method is the same whether its ctx is live,
\* cancelled or past its deadline: the values and error returned, the
\* client state left behind and the goroutine launched do not depend on it.
C17_ContextIgnored ==
    [][\A c \in Contexts : SameStep("live", c)]_vars

\* A call made with a cancelled ctx returned its canned value and a nil
\* error, and launched its dispatch goroutine.
C17_Witness ==
    /\ lastCtx = "cancelled"
    /\ cur.returned /\ SingleResult(cur.op)
    /\ ~IsZeroResult(cur.op, 1, cur.ret[1]) /\ cur.err = Nil
    /\ calls[Len(calls)].launched

\* The observers that were registered on the facade by some call so far.
EverRegistered == {calls[k].who : k \in {i \in 1..Len(calls) :
                                          calls[i].op = "RegisterObserver"}}

\* C18: whatever is called on a facade, the tracing flag, logger, registry
\* and canned fields of the other instance stay as they were, and the
\* facade's notifications go only to observers registered on the facade.
C18_InstancesIsolated ==
    /\ other = UsedClient(group)
    /\ \A d \in inflight : d.obs \in EverRegistered
    /\ \A o \in Observers : received[o] # <<>> => o \in EverRegistered

\* The facade set its own level to INFO and notified its own observer 1;
\* the other instance is still traced and its observer 2 was handed nothing.
C18_Witness ==
    /\ other.isTrace /\ other.logger = "TRACE"
    /\ other.observers.entries[2] = 1
    /\ cur.op.kind = "loglevel" /\ cur.returned
    /\ logger = "INFO" /\ ~isTrace
    /\ Len(received[1]) = 2 /\ received[2] = <<>>

\* C19 as stated: a dispatch goroutine finds the registry populated or
\* delivers nothing; it never calls into an absent registry.
C19_DispatchNeverDereferencesAbsent == panicked # "notify"

\* C20: nothing orders the dispatches of two calls: while the goroutines of
\* an earlier and a later call are both ready to publish, either may publish
\* next, and while an observer has the notifications of an earlier and a
\* later call pending, either may be handed to it next.
C20_EitherOrderPossible ==
    panicked = Nil =>
        /\ \A t1, t2 \in tasks :
             (t1.call < t2.call /\ t1.phase = "built" /\ t2.phase = "built")
                 => ENABLED DispatchNotify(t1) /\ ENABLED DispatchNotify(t2)
        /\ \A d1, d2 \in inflight :
             (d1.obs = d2.obs /\ d1.call < d2.call)
                 => ENABLED UpdateObserver(d1) /\ ENABLED UpdateObserver(d2)

\* An observer was handed the notification of the later of two data calls
\* before that of the earlier one.
C20_Witness ==
    \E o \in Observers : \E i, j \in 1..Len(received[o]) :
        /\ i < j
        /\ received[o][i].call > received[o][j].call
        /\ {calls[received[o][i].call].op, calls[received[o][j].call].op}
             \cap {"RegisterObserver", "UnregisterObserver"} = {}

\* C21: only the harness writes a canned field: every step that changes
\* one is a SetCanned step, so each field holds the value last set.
C21_CannedReadOnly ==
    [][canned' # canned =>
         \E f \in Fields(group) : \E v \in FieldValues(f) : SetCanned(f, v)]_vars

\* A traced call returned a set field and its notification was delivered;
\* the field still holds the value.
C21_Witness ==
    /\ nsets > 0 /\ cur.returned /\ SingleResult(cur.op) /\ cur.traced
    /\ ~IsZeroResult(cur.op, 1, canned[cur.op.results[1]])
    /\ \E o \in Observers : Received(o, Len(calls)) = 1

\* C22: RegisterObserver returns the error of the subject's add: nil when
\* the add succeeds, the add's error when it fails, and no other.
C22_RegisterReturnsAddError ==
    (cur.returned /\ cur.op.kind = "register")
        => /\ cur.err = cur.addErr
           /\ cur.err = Nil => observers.entries[cur.obs] > 0

\* A RegisterObserver returned the error of a failed add.
C22_Witness ==
    cur.returned /\ cur.op.kind = "register" /\ cur.err = AddError

\* C23: a RegisterObserver whose add fails on a client without a registry
\* leaves the registry absent, and no later call launches a dispatch while
\* no observer is registered.
C23_FailedAddLeavesRegistryAbsent ==
    /\ (cur.returned /\ cur.op.kind = "register" /\ cur.err # Nil
          /\ ~cur.before.present) => ~observers.present
    /\ \A k \in 1..Len(calls) :
         (calls[k].op # "RegisterObserver" /\ calls[k].launched)
             => calls[k].obs # {}

\* C24: the tracing flag is false on a fresh instance and, after any
\* sequence of operations, true exactly when the most recent SetLogLevel
\* call set the level TRACE: no call yet means flag off, a SetLogLevel
\* step leaves the flag equal to "its level is TRACE", and every other
\* step leaves the flag as it was.
C24_TraceFlagFollowsLastSetLogLevel ==
    /\ [](Len(calls) = 0 => ~isTrace)
    /\ [][IF \E c \in Contexts : \E l \in Levels : SetLogLevelCall(c, l)
          THEN isTrace' = (cur'.level = "TRACE")
          ELSE isTrace' = isTrace]_vars

\* Tracing was on, SetLogLevel(INFO) has returned and the flag is off.
C24_Witness ==
    /\ cur.returned /\ cur.op.kind = "loglevel"
    /\ cur.traced /\ cur.level = "INFO" /\ ~isTrace

\* Whether the last call emitted a trace event of the given kind.
TraceEmitted(kind) == \E i \in 1..Len(cur.log) : cur.log[i][1] = kind

\* C25 as stated: in every call that has returned, a trace-entry was
\* emitted if and only if a trace-exit was, SetLogLevel calls that switch
\* tracing on or off included.
C25_EntryIffExit ==
    cur.returned => (TraceEmitted("traceEntry") <=> TraceEmitted("traceExit"))

\* C25 amended: each trace event follows the flag as it is when its
\* statement is reached. The entry is emitted exactly when tracing was on
\* at invocation; the exit is emitted exactly when the call returns with
\* tracing on, which for SetLogLevel means the level it set is TRACE and
\* for every other operation means tracing was on at invocation. A call
\* that does not return emits no exit.
C25_TraceEventsFollowFlag ==
    /\ TraceEmitted("traceEntry") <=> cur.traced
    /\ TraceEmitted("traceExit") <=>
         /\ cur.returned
         /\ IF cur.op.kind = "loglevel" THEN cur.level = "TRACE"
            ELSE cur.traced

\* SetLogLevel(TRACE) returned on a client that was not tracing: an exit
\* without an entry.
C25_Witness ==
    /\ cur.returned /\ cur.op.kind = "loglevel"
    /\ ~cur.traced /\ cur.level = "TRACE"
    /\ TraceEmitted("traceExit") /\ ~TraceEmitted("traceEntry")

\* C26: only RegisterObserver and UnregisterObserver change the registry
\* and only SetLogLevel changes the tracing flag: a step that changes the
\* registry is a step of RegisterObserver or UnregisterObserver, a step
\* that changes the flag is a step of SetLogLevel, and every step of
\* another operation (and of the dispatch tasks) leaves both as they were.
C26_OnlyOwnersChangeRegistryAndFlag ==
    [][/\ observers' # observers =>
            \E c \in Contexts :
               \/ \E o \in Observers : RegisterObserverCall(c, o)
               \/ RegisterObserverReturn(c)
               \/ \E o \in Observers : UnregisterObserverCall(c, o)
               \/ UnregisterObserverReturn(c)
       /\ isTrace' # isTrace =>
            \E c \in Contexts : \E l \in Levels : SetLogLevelCall(c, l)]_vars

\* A data operation has returned on a tracing client with an observer
\* registered, both as they were when it was invoked.
C26_Witness ==
    /\ cur.returned /\ cur.op.kind = "data"
    /\ isTrace /\ cur.traced
    /\ Registered # {} /\ cur.before = observers

\* UnregisterObserver(o) has returned and o was not registered again.
Unregistered(o) ==
    \E k \in 1..Len(calls) :
        /\ calls[k].op = "UnregisterObserver" /\ calls[k].who = o
        /\ k < Len(calls) \/ cur.returned
        /\ \A j \in (k + 1)..Len(calls) :
             ~(calls[j].op = "RegisterObserver" /\ calls[j].who = o)

\* C27 as stated: once UnregisterObserver(O) has returned, O is delivered
\* no further notification unless it is registered again, the unregister
\* notification included.
C27_NoDeliveryAfterUnregister ==
    [][\A o \in Observers :
          Unregistered(o) => received'[o] = received[o]]_vars

\* C27 amended: once UnregisterObserver(O) has returned, no notification
\* is published to O unless it is registered again, whichever dispatch
\* task runs; what was published to O before the removal (the unregister
\* notification, earlier dispatches) may be delivered after the return.
C27_NoPublicationAfterUnregister ==
    [][\A o \in Observers :
          Unregistered(o) => \A d \in inflight' \ inflight : d.obs # o]_vars

\* O's unregistration has returned with its unregister notification still
\* to be delivered, and the dispatch of O's own RegisterObserver, run after
\* the removal, has published to the other observer only.
C27_Witness ==
    \E o \in Observers : \E p \in Observers \ {o} : \E k \in 1..Len(calls) :
        /\ Unregistered(o) /\ panicked = Nil
        /\ \E d \in inflight : d.obs = o /\ d.call = Len(calls)
        /\ calls[k].op = "RegisterObserver" /\ calls[k].who = o
        /\ Received(p, k) + Cardinality(Pending(p, k)) > 0
        /\ Received(o, k) = 0 /\ Pending(o, k) = {}
        /\ \A t \in tasks : t.call # k

\* C28: an observer is delivered notifications only for operations invoked
\* while it was registered, its own RegisterObserver call excepted: every
\* notification an observer has received belongs to a call during whose
\* invocation it was registered, or to the call that registered it.
C28_DeliveredOnlyIfRegisteredAtInvocation ==
    \A o \in Observers : \A i \in 1..Len(received[o]) :
        LET k == received[o][i].call
        IN \/ o \in calls[k].obs
           \/ calls[k].op = "RegisterObserver" /\ calls[k].who = o

\* The notifications of call k published so far.
PublishedOf(k) ==
    {d.msg : d \in {e \in inflight : e.call = k}}
    \cup UNION {{received[o][i].msg :
                   i \in {j \in 1..Len(received[o]) : received[o][j].call = k}} :
                  o \in Observers}

\* C29: for an operation whose notification reports a canned value
\* (recordID, configID), the value carried by the notification equals the
\* value the same call returned, also when the harness changes the canned
\* field after the return and before the dispatch task runs.
C29_NotificationReportsReturnedValue ==
    (cur.returned /\ cur.op.dField # <<>>) =>
        LET key == cur.op.dField[1]
            f == cur.op.dField[2]
            i == CHOOSE j \in 1..Len(cur.op.results) : cur.op.results[j] = f
            text == IF f \in IntFields THEN Itoa(cur.ret[i]) ELSE cur.ret[i]
        IN \A msg \in PublishedOf(Len(calls)) : msg[key] = text

\* C30: each call causes at most one notification to be published: a call
\* has at most one dispatch task, which publishes at most once (while it
\* is still to run nothing of the call is published, afterwards it is
\* gone) one message; no observer is handed more than one notification of
\* the same call; and every notification of a call carries the event id of
\* that call.
C30_AtMostOneNotificationPerCall ==
    \A k \in 1..Len(calls) :
        /\ Cardinality({t \in tasks : t.call = k}) <= 1
        /\ (\E t \in tasks : t.call = k) => PublishedOf(k) = {}
        /\ Cardinality(PublishedOf(k)) <= 1
        /\ \A o \in Observers :
             Received(o, k) + Cardinality(Pending(o, k)) <= 1
        /\ \A msg \in PublishedOf(k) :
             msg["messageId"] = Itoa(calls[k].event)

\* With two observers registered, the notification of a data operation
\* has been delivered to each of them, once.
C30_Witness ==
    /\ Len(calls) = 3 /\ cur.op.kind = "data" /\ cur.returned
    /\ tasks = {} /\ inflight = {}
    /\ \A o \in Observers : Received(o, 3) = 1

\* C31: after a successful RegisterObserver(O) the newly registered O
\* itself receives the register notification. Once the call has returned
\* and its dispatch task has run, nothing more is published for the call,
\* so by then the notification has been handed to O or is on its way.
C31_NewObserverGetsRegisterNotification ==
    \A k \in 1..Len(calls) :
        (/\ calls[k].op = "RegisterObserver"
         /\ k < Len(calls) \/ (cur.returned /\ cur.err = Nil)
         /\ \A t \in tasks : t.call # k)
            => Received(calls[k].who, k) + Cardinality(Pending(calls[k].who, k)) = 1

\* The place of the first step of the given kind in the last call.
StepAt(kind) ==
    CHOOSE i \in 1..Len(cur.log) :
        /\ cur.log[i][1] = kind
        /\ \A j \in 1..(i - 1) : cur.log[j][1] # kind

\* C32: the elapsed interval reported by trace-exit spans the whole
\* method: it starts before the trace-entry event is emitted and ends
\* after the dispatch launch and before the result is returned, without
\* waiting for the notification (the interval ends before the return,
\* whatever the dispatch task has done).
C32_ElapsedSpansWholeMethod ==
    (cur.returned /\ TraceEmitted("traceExit")) =>
        /\ TraceEmitted("traceEntry") => cur.elapsed.from < StepAt("traceEntry")
        /\ TraceEmitted("launch") => cur.elapsed.to >= StepAt("launch")
        /\ cur.elapsed.to < StepAt("result")

\* C33: trace emission is best-effort: a failure of the logger, the
\* failure to construct it included, never aborts a call and never changes
\* what a call returns (the canned values, or "mock", and a nil error).
C33_LoggerFailureNeverAbortsCall ==
    /\ panicked # "getLogger"
    /\ (cur.returned /\ cur.op.kind \in {"data", "sdkid"}) =>
         /\ cur.ret = Results(cur.op, cur.held)
         /\ cur.err = Nil

\* C34: within the capability group the trace codes are unique per
\* operation: every operation has one entry/exit pair of its own, no code
\* is used by two operations or as both an entry and an exit code (the
\* entry and exit codes of n operations are 2n different numbers), and the
\* trace events a call emits carry the pair of its operation.
C34_TraceCodesUnique ==
    LET codes == TraceCodes(group)
    IN /\ Cardinality({r.name : r \in codes}) = Cardinality(codes)
       /\ Cardinality({r.entry : r \in codes} \cup {r.exit : r \in codes})
            = 2 * Cardinality(codes)
       /\ \A op \in GroupOps(group) :
            TraceCode(op.name, op.entry, op.exit) \in codes
       /\ \A i \in 1..Len(cur.log) :
            /\ cur.log[i][1] = "traceEntry"
                 => TraceCode(cur.op.name, cur.log[i][2], cur.op.exit) \in codes
            /\ cur.log[i][1] = "traceExit"
                 => TraceCode(cur.op.name, cur.op.entry, cur.log[i][2]) \in codes

\* A traced GetSdkId of the engine facade has returned: both of its trace
\* events were emitted.
C34_Witness ==
    /\ group = "engine" /\ cur.op.kind = "sdkid" /\ cur.returned
    /\ TraceEmitted("traceEntry") /\ TraceEmitted("traceExit")

====
